---- MODULE Spec2Model ----
(***************************************************************************)
(* Model of the SignForge inference queue (signforge/inference/queue.py)   *)
(* together with the parts of the service and of the POST /generate route  *)
(* that reach it.  Threads are modelled at statement granularity: every    *)
(* step below is one read or write of shared state (a queue.Queue call, a  *)
(* write of a QueueItem field, a critical section under _lock).  The       *)
(* second part models InferenceService (signforge/inference/service.py),   *)
(* the init_service hook of the app and the backend's load and unload.     *)
(***************************************************************************)
EXTENDS Integers, Sequences, FiniteSets, TLC

(* ------------------------------ bounds --------------------------------- *)
\* capacity given to InferenceQueue(max_size=...)
MaxSize == 2
\* number of QueueItem objects ever created (accepted submissions)
MaxJobs == 3
\* request-handling threads calling POST /generate concurrently
MaxSubmitters == 2
\* worker threads that can exist at once (each start() after a timed-out
\* stop() creates one more)
MaxWorkers == 2

\* seconds the clock advances over a run
MaxTime == 2
\* largest max_age_seconds passed to cleanup_old
MaxAge == 1
\* largest integer passed as InferenceQueue(max_size=...) to the constructor
MaxArg == 12

(* --------------------------- program constants ------------------------- *)
\* core/config.py 49: InferenceConfig.max_queue_size
ConfigMaxQueueSize == 10
\* api_schema.GenerateRequest.steps: Field(default=30, ge=1, le=100)
StepsMin == 1
StepsMax == 100
\* api_schema.GenerateRequest.prompt: Field(..., min_length=1, ...)
PromptMinLen == 1

Ids == 1..MaxJobs
Submitters == 1..MaxSubmitters
Workers == 1..MaxWorkers
\* the load_task threads: InferenceService.start starts one per call, and
\* it is called by the request threads that race through init_service
Loaders == 1..MaxSubmitters

\* Python None for the optional fields
None == "None"
\* None for the datetime fields (timestamps are readings of the clock)
NoTime == -1
\* None for object references (_current_item, _worker_thread, locals)
NoRef == 0

\* ItemStatus (queue.py 21-26)
PENDING == "pending"
PROCESSING == "processing"
COMPLETED == "completed"
FAILED == "failed"
CANCELLED == "cancelled"
ItemStatus == {PENDING, PROCESSING, COMPLETED, FAILED, CANCELLED}
Terminal == {COMPLETED, FAILED, CANCELLED}

\* a QueueItem object that has not been constructed yet
NoItem == [status |-> "absent"]

\* QueueItem(id=..., request=..., total_steps=...) with the dataclass defaults
NewItem(steps, t) ==
  [status |-> PENDING, created_at |-> t, started_at |-> NoTime,
   completed_at |-> NoTime, result |-> None, error |-> None,
   progress |-> 0, total_steps |-> steps]

\* JSON bodies a client posts: no body at all, or prompt length and steps
NoBody == [kind |-> "none"]
Bodies ==
  {NoBody} \cup
  [kind : {"json"}, prompt_len : {0, 1}, steps : {0, 2, 101}]

\* GenerateRequest(**data): the pydantic field constraints
Validates(body) ==
  /\ body.prompt_len >= PromptMinLen
  /\ body.steps >= StepsMin
  /\ body.steps <= StepsMax

\* values the processing callback can return, exceptions it can raise
Results == {"image"}
Exceptions == {[type |-> "ValueError", args |-> <<"boom">>]}

\* str(e) of an exception: its single argument, "" when it has none
Str(e) == IF Len(e.args) = 1 THEN e.args[1] ELSE ""

VARIABLES
  obj,            \* the QueueItem objects, by id (NoItem: not constructed)
  items,          \* InferenceQueue._items: ids registered in the dict
  q,              \* InferenceQueue._queue: FIFO of items
  running,        \* InferenceQueue._running
  current_item,   \* InferenceQueue._current_item
  worker_thread,  \* InferenceQueue._worker_thread (latest thread started)
  worker_fn,      \* whether a worker_fn was given at construction
  now,            \* the clock read by datetime.now()
  nextId,         \* next fresh uuid
  wpc, witem, wexc,         \* worker threads: position, local item, caught e
  spc, sitem, sreq,         \* request threads: position, local item, request
  cpc,            \* the thread calling start()/stop(): position
  calls,          \* history: how often worker_fn was invoked per item
  seen,           \* history: items whose submit had returned when this
                  \*          thread's submit call was made, and that have
                  \*          not started since
  pred,           \* history: the same set, kept per accepted item
  started,        \* InferenceService._started, the flag of app.init_service
  squeue,         \* how many InferenceQueue objects InferenceService.start
                  \* has constructed; 0: InferenceService._queue is None
  replaced,       \* the InferenceQueue objects the service has let go of
  wq,             \* worker threads: which of these objects the thread runs
                  \* the loop of
  pipe,           \* SignForgePipeline._pipe is not None
  loading,        \* SignForgePipeline._loading
  lpc,            \* the load_task threads of InferenceService.start
  ppc,            \* worker threads: position inside _process_item
  ctor,           \* a call InferenceQueue(max_size=arg) and the queue it
                  \* gives
  cln             \* the thread calling cleanup_old: position, locals and
                  \* the value last returned

vars == <<obj, items, q, running, current_item, worker_thread, worker_fn, now,
          nextId, wpc, witem, wexc, spc, sitem, sreq, cpc,
          calls, seen, pred,
          started, squeue, replaced, wq, pipe, loading, lpc, ppc, ctor,
          cln>>

svcVars == <<started, squeue, replaced, wq, pipe, loading, lpc, ppc>>

queueVars == <<obj, items, q, running, current_item, worker_thread, worker_fn,
               now, nextId>>
workerVars == <<wpc, witem, wexc>>
submitVars == <<spc, sitem, sreq>>
histVars == <<calls, seen, pred>>

NoExc == [type |-> "none", args |-> <<>>]
\* no constructor call is looked at
NoCtor == [pc |-> "none"]
NoReq == [steps |-> 0]

\* InferenceQueue.__init__: empty queue and registry, no thread, not running
QueueInit ==
  /\ obj = [i \in Ids |-> NoItem]
  /\ items = {}
  /\ q = <<>>
  /\ running = FALSE
  /\ current_item = NoRef
  /\ worker_thread = NoRef
  /\ worker_fn \in BOOLEAN
  /\ now = 0
  /\ nextId = 1
  /\ wpc = [w \in Workers |-> "dead"]
  /\ witem = [w \in Workers |-> NoRef]
  /\ wexc = [w \in Workers |-> NoExc]
  /\ spc = [t \in Submitters |-> "idle"]
  /\ sitem = [t \in Submitters |-> NoRef]
  /\ sreq = [t \in Submitters |-> NoReq]
  /\ cpc = "idle"
  /\ calls = [i \in Ids |-> 0]
  /\ seen = [t \in Submitters |-> {}]
  /\ pred = [i \in Ids |-> {}]
  /\ started = FALSE
  /\ squeue = 0
  /\ replaced = <<>>
  /\ wq = [w \in Workers |-> 0]
  /\ pipe = FALSE
  /\ loading = FALSE
  /\ lpc = [l \in Loaders |-> "idle"]
  /\ ppc = [w \in Workers |-> "none"]

\* cleanup_old is not being called and has returned nothing yet
NoCleanup == [pc |-> "idle", now |-> 0, max_age_seconds |-> 0, removed |-> 0]

Init == QueueInit /\ ctor = NoCtor /\ cln = NoCleanup

\* Full with the comparison off by one (a full queue still takes one more)
FullOffByOne == 0 < MaxSize /\ MaxSize < Len(q)

\* queue.Queue.full(): 0 < maxsize <= qsize
Full == 0 < MaxSize /\ MaxSize <= Len(q)

\* items whose submit call has returned to its caller
Returned == {i \in Ids : obj[i] # NoItem /\ \A t \in Submitters : sitem[t] # i}

\* those of them that no worker has marked PROCESSING yet
Waiting == {i \in Returned : obj[i].status = PENDING}

\* request threads that passed the full() test and are about to construct
\* their QueueItem
Creating == Cardinality({t \in Submitters : spc[t] = "create"})

(* ------------------------------ readers -------------------------------- *)

\* datetime.isoformat() of a clock reading
Isoformat(t) == ToString(t)

\* queue.py 43-53 QueueItem.to_dict(): the dict a status reader is given
to_dict(item) ==
  [status |-> item.status,
   created_at |-> Isoformat(item.created_at),
   started_at |->
     IF item.started_at # NoTime THEN Isoformat(item.started_at) ELSE None,
   completed_at |->
     IF item.completed_at # NoTime THEN Isoformat(item.completed_at) ELSE None,
   progress |-> item.progress,
   total_steps |-> item.total_steps,
   error |-> item.error]

\* queue.py 104-107 get_item(): self._items.get(item_id) under the lock
get_item(item_id) == IF item_id \in items THEN obj[item_id] ELSE NoItem

\* service.py 81-86 get_status(item_id): None without a queue or an item,
\* else item.to_dict(); the worker writes the fields without the lock, so
\* the reader is given them as they are in the current state; NoDict is
\* the None answer
NoDict == [none |-> TRUE]

get_status(item_id) ==
  IF squeue = 0 THEN NoDict
  ELSE IF get_item(item_id) = NoItem THEN NoDict
  ELSE to_dict(get_item(item_id))

\* bool(value) of a callback result: None and the empty dict are false
EmptyDict == "{}"
Truthy(value) == value \notin {None, EmptyDict}

\* service.py 88-95 get_result(item_id): None without a queue, without an
\* item, and for an item whose result is false; else item.result
get_result(item_id) ==
  IF squeue = 0 THEN None
  ELSE IF get_item(item_id) = NoItem \/ ~Truthy(get_item(item_id).result)
    THEN None
  ELSE get_item(item_id).result

\* generate.py 54-66 GET /generate/<item_id>/result: 200 with the result
\* when get_result gives one; else 404 when get_status gives nothing, and
\* 202 with the status dict when it gives one
GetResultRoute(item_id) ==
  IF Truthy(get_result(item_id))
    THEN [code |-> 200, body |-> get_result(item_id)]
  ELSE IF get_status(item_id) = NoDict
    THEN [code |-> 404]
  ELSE [code |-> 202, status |-> get_status(item_id)]

\* queue.py 109-118 InferenceQueue.get_status(), which the service's
\* get_queue_status() passes on (service.py 97-103): read without the lock
get_queue_status ==
  [running |-> running,
   queue_size |-> Len(q),
   max_size |-> MaxSize,
   current_item |-> IF current_item # NoRef THEN current_item ELSE NoRef,
   total_processed |->
     Cardinality({i \in items : obj[i].status \in {COMPLETED, FAILED}})]

(* ------------------- request threads: POST /generate ------------------- *)

\* req.model_dump(): the request dict the service is given
ModelDump(body) == [steps |-> body.steps]

\* routes/generate.py 19-29 and queue.py 94: a missing or invalid body is
\* answered 400 before the service is called (generate.py 22, 33-34), which
\* touches no state; otherwise service.submit calls queue.submit, which
\* tests self._queue.full().  Idle request threads are interchangeable: the
\* lowest one takes the call.
Rejects(body) == body = NoBody \/ ~Validates(body)

Generate(t, body) ==
  /\ spc[t] = "idle"
  /\ \A u \in Submitters : u < t => spc[u] # "idle"
  /\ IF Rejects(body)
       THEN UNCHANGED <<spc, sreq, seen>>
       ELSE /\ Full \/ nextId + Creating <= MaxJobs
            /\ spc' = [spc EXCEPT ![t] = IF Full THEN "raise" ELSE "create"]
            /\ sreq' = [sreq EXCEPT ![t] = ModelDump(body)]
            /\ seen' = [seen EXCEPT ![t] = Waiting]
  /\ UNCHANGED <<ctor, cln, svcVars, queueVars, workerVars, sitem, cpc, calls,
                 pred>>

\* QueueFullError with its two arguments swapped
QueueFullErrorSwapped == [queue_size |-> MaxSize, max_size |-> Len(q)]

\* the details of QueueFullError(self._queue.qsize(), self.max_size) built
\* at queue.py 95 in the current state (errors.py 226-242)
QueueFullError == [queue_size |-> Len(q), max_size |-> MaxSize]

\* SubmitRaise for a submit that registers its item before it finds the
\* queue full
SubmitRaiseAfterRegister(t) ==
  /\ spc[t] = "raise"
  /\ spc' = [spc EXCEPT ![t] = "idle"]
  /\ sreq' = [sreq EXCEPT ![t] = NoReq]
  /\ seen' = [seen EXCEPT ![t] = {}]
  /\ IF nextId <= MaxJobs
       THEN /\ obj' = [obj EXCEPT ![nextId] = NewItem(sreq[t].steps, now)]
            /\ items' = items \cup {nextId}
            /\ nextId' = nextId + 1
       ELSE UNCHANGED <<obj, items, nextId>>
  /\ UNCHANGED <<ctor, cln, svcVars,
                 q, running, current_item, worker_thread, worker_fn, now,
                 workerVars, sitem, cpc, calls, pred>>

\* queue.py 95 and generate.py 35-36: raise QueueFullError, answered 429
\* with e.to_dict()
SubmitRaise(t) ==
  /\ spc[t] = "raise"
  /\ spc' = [spc EXCEPT ![t] = "idle"]
  /\ sreq' = [sreq EXCEPT ![t] = NoReq]
  /\ seen' = [seen EXCEPT ![t] = {}]
  /\ UNCHANGED <<ctor, cln, svcVars, queueVars, workerVars, sitem, cpc, calls,
                 pred>>

\* queue.py 97-99: construct the QueueItem and register it under the lock
SubmitRegister(t) ==
  /\ spc[t] = "create"
  /\ nextId <= MaxJobs
  /\ obj' = [obj EXCEPT ![nextId] = NewItem(sreq[t].steps, now)]
  /\ items' = items \cup {nextId}
  /\ sitem' = [sitem EXCEPT ![t] = nextId]
  /\ pred' = [pred EXCEPT ![nextId] = seen[t]]
  /\ seen' = [seen EXCEPT ![t] = {}]
  /\ nextId' = nextId + 1
  /\ spc' = [spc EXCEPT ![t] = "put"]
  /\ UNCHANGED <<ctor, cln, svcVars,
                 q, running, current_item, worker_thread, worker_fn, now,
                 workerVars, sreq, cpc, calls>>

\* queue.py 100: self._queue.put(item), a blocking put: it waits while the
\* queue is full
SubmitPut(t) ==
  /\ spc[t] = "put"
  /\ ~Full
  /\ q' = Append(q, sitem[t])
  /\ spc' = [spc EXCEPT ![t] = "ret"]
  /\ UNCHANGED <<ctor, cln, svcVars,
                 obj, items, running, current_item, worker_thread, worker_fn,
                 now, nextId, workerVars, sitem, sreq, cpc, histVars>>

\* queue.py 102, service.py 78-79, generate.py 31: return the item; the
\* service reads item.status for the 202 answer
SubmitReturn(t) ==
  /\ spc[t] = "ret"
  /\ spc' = [spc EXCEPT ![t] = "idle"]
  /\ sitem' = [sitem EXCEPT ![t] = NoRef]
  /\ sreq' = [sreq EXCEPT ![t] = NoReq]
  /\ UNCHANGED <<ctor, cln, svcVars, queueVars, workerVars, cpc, histVars>>

\* service.py 79: the dict InferenceService.submit returns, with the
\* item's status as it is when the dict is built
SubmitResponse(t) == [item_id |-> sitem[t], status |-> obj[sitem[t]].status]

(* ----------------------- worker: _worker_loop -------------------------- *)

Item(w) == obj[witem[w]]

\* queue.py 122-126: while self._running (the thread ends when it is
\* false): item = self._queue.get(timeout=1); on queue.Empty the loop
\* continues with the test
WorkerGet(w) ==
  /\ wpc[w] = "while"
  /\ IF ~running
       THEN /\ wpc' = [wpc EXCEPT ![w] = "dead"]
            /\ UNCHANGED <<witem, q>>
       ELSE IF q # <<>>
         THEN /\ witem' = [witem EXCEPT ![w] = Head(q)]
              /\ q' = Tail(q)
              /\ wpc' = [wpc EXCEPT ![w] = "l128"]
         ELSE UNCHANGED <<wpc, witem, q>>
  /\ UNCHANGED <<ctor, cln, svcVars,
                 obj, items, running, current_item, worker_thread, worker_fn,
                 now, nextId, wexc, submitVars, cpc, histVars>>

\* queue.py 128: self._current_item = item
WorkerSetCurrent(w) ==
  /\ wpc[w] = "l128"
  /\ current_item' = witem[w]
  /\ wpc' = [wpc EXCEPT ![w] = "l129"]
  /\ UNCHANGED <<ctor, cln, svcVars,
                 obj, items, q, running, worker_thread, worker_fn, now, nextId,
                 witem, wexc, submitVars, cpc, histVars>>

\* WorkerSetProcessing for a loop that forgets to mark the item Processing
WorkerSetProcessingSkipped(w) ==
  /\ wpc[w] = "l129"
  /\ wpc' = [wpc EXCEPT ![w] = "l130"]
  /\ pred' = [i \in Ids |-> IF i = witem[w] THEN {} ELSE pred[i] \ {witem[w]}]
  /\ seen' = [t \in Submitters |-> seen[t] \ {witem[w]}]
  /\ UNCHANGED <<ctor, cln, svcVars, obj,
                 items, q, running, current_item, worker_thread, worker_fn,
                 now, nextId, witem, wexc, submitVars, cpc, calls>>

\* queue.py 129: item.status = ItemStatus.PROCESSING
\* (the histories keep only predecessors that have not started: the item
\* leaves them here)
WorkerSetProcessing(w) ==
  /\ wpc[w] = "l129"
  /\ obj' = [obj EXCEPT ![witem[w]].status = PROCESSING]
  /\ wpc' = [wpc EXCEPT ![w] = "l130"]
  /\ pred' = [i \in Ids |-> IF i = witem[w] THEN {} ELSE pred[i] \ {witem[w]}]
  /\ seen' = [t \in Submitters |-> seen[t] \ {witem[w]}]
  /\ UNCHANGED <<ctor, cln, svcVars,
                 items, q, running, current_item, worker_thread, worker_fn,
                 now, nextId, witem, wexc, submitVars, cpc, calls>>

\* queue.py 130: item.started_at = datetime.now()
WorkerSetStarted(w) ==
  /\ wpc[w] = "l130"
  /\ obj' = [obj EXCEPT ![witem[w]].started_at = now]
  /\ wpc' = [wpc EXCEPT ![w] = "l134"]
  /\ UNCHANGED <<ctor, cln, svcVars,
                 items, q, running, current_item, worker_thread, worker_fn,
                 now, nextId, witem, wexc, submitVars, cpc, histVars>>

\* queue.py 134-135 and 138-139: with a worker_fn, call it with the item;
\* without one, item.status = ItemStatus.FAILED
WorkerInvoke(w) ==
  /\ wpc[w] = "l134"
  /\ IF worker_fn
       THEN /\ calls' = [calls EXCEPT ![witem[w]] = @ + 1]
            /\ wpc' = [wpc EXCEPT ![w] = "incall"]
            /\ UNCHANGED obj
       ELSE /\ obj' = [obj EXCEPT ![witem[w]].status = FAILED]
            /\ wpc' = [wpc EXCEPT ![w] = "l140"]
            /\ UNCHANGED calls
  /\ UNCHANGED <<ctor, cln, svcVars,
                 items, q, running, current_item, worker_thread, worker_fn,
                 now, nextId, witem, wexc, submitVars, cpc, seen, pred>>

\* queue.py 140: item.error = "No worker function configured"
WorkerNoFnError(w) ==
  /\ wpc[w] = "l140"
  /\ obj' = [obj EXCEPT ![witem[w]].error = "No worker function configured"]
  /\ wpc' = [wpc EXCEPT ![w] = "l146"]
  /\ UNCHANGED <<ctor, cln, svcVars,
                 items, q, running, current_item, worker_thread, worker_fn,
                 now, nextId, witem, wexc, submitVars, cpc, histVars>>

\* queue.py 150-156 set_progress, as called by the progress callback of
\* service._process_item (service.py 109-111) from inside generate
\* (pipeline.py 393-395: progress_callback(step, request.steps)); the steps
\* of one generation are reported in increasing order
set_progress(item_id, progress, total) ==
  IF item_id \in items
    THEN obj' = [obj EXCEPT ![item_id].progress = progress,
                            ![item_id].total_steps = total]
    ELSE UNCHANGED obj

CallbackProgress(w, step) ==
  /\ wpc[w] = "incall"
  /\ step > Item(w).progress
  /\ step < Item(w).total_steps
  /\ set_progress(witem[w], step, Item(w).total_steps)
  /\ UNCHANGED <<ctor, cln, svcVars,
                 items, q, running, current_item, worker_thread, worker_fn,
                 now, nextId, workerVars, submitVars, cpc, histVars>>

\* queue.py 135-136: the callback returns, which generate does after its
\* last step has been reported; item.result = result
CallbackReturn(w, r) ==
  /\ wpc[w] = "incall"
  /\ Item(w).progress = Item(w).total_steps - 1
  /\ obj' = [obj EXCEPT ![witem[w]].result = r]
  /\ wpc' = [wpc EXCEPT ![w] = "l137"]
  /\ UNCHANGED <<ctor, cln, svcVars,
                 items, q, running, current_item, worker_thread, worker_fn,
                 now, nextId, witem, wexc, submitVars, cpc, histVars>>

\* queue.py 137: item.status = ItemStatus.COMPLETED
WorkerSetCompleted(w) ==
  /\ wpc[w] = "l137"
  /\ obj' = [obj EXCEPT ![witem[w]].status = COMPLETED]
  /\ wpc' = [wpc EXCEPT ![w] = "l146"]
  /\ UNCHANGED <<ctor, cln, svcVars,
                 items, q, running, current_item, worker_thread, worker_fn,
                 now, nextId, witem, wexc, submitVars, cpc, histVars>>

\* queue.py 141-143: the callback raises e; item.status = ItemStatus.FAILED
CallbackRaise(w, e) ==
  /\ wpc[w] = "incall"
  /\ wexc' = [wexc EXCEPT ![w] = e]
  /\ obj' = [obj EXCEPT ![witem[w]].status = FAILED]
  /\ wpc' = [wpc EXCEPT ![w] = "l144"]
  /\ UNCHANGED <<ctor, cln, svcVars,
                 items, q, running, current_item, worker_thread, worker_fn,
                 now, nextId, witem, submitVars, cpc, histVars>>

\* WorkerSetError for a loop whose except clause lets the exception end the
\* thread once the failure is recorded
WorkerSetErrorAndDie(w) ==
  /\ wpc[w] = "l144"
  /\ obj' = [obj EXCEPT ![witem[w]].error = Str(wexc[w])]
  /\ wexc' = [wexc EXCEPT ![w] = NoExc]
  /\ witem' = [witem EXCEPT ![w] = NoRef]
  /\ wpc' = [wpc EXCEPT ![w] = "dead"]
  /\ UNCHANGED <<ctor, cln, svcVars,
                 items, q, running, current_item, worker_thread, worker_fn,
                 now, nextId, submitVars, cpc, histVars>>

\* queue.py 144: item.error = str(e)
WorkerSetError(w) ==
  /\ wpc[w] = "l144"
  /\ obj' = [obj EXCEPT ![witem[w]].error = Str(wexc[w])]
  /\ wexc' = [wexc EXCEPT ![w] = NoExc]
  /\ wpc' = [wpc EXCEPT ![w] = "l146"]
  /\ UNCHANGED <<ctor, cln, svcVars,
                 items, q, running, current_item, worker_thread, worker_fn,
                 now, nextId, witem, submitVars, cpc, histVars>>

\* queue.py 146: item.completed_at = datetime.now()
WorkerSetCompletedAt(w) ==
  /\ wpc[w] = "l146"
  /\ obj' = [obj EXCEPT ![witem[w]].completed_at = now]
  /\ wpc' = [wpc EXCEPT ![w] = "l147"]
  /\ UNCHANGED <<ctor, cln, svcVars,
                 items, q, running, current_item, worker_thread, worker_fn,
                 now, nextId, witem, wexc, submitVars, cpc, histVars>>

\* WorkerClearCurrent for a loop that puts a failed item back in the queue
WorkerClearCurrentRetry(w) ==
  /\ wpc[w] = "l147"
  /\ current_item' = NoRef
  /\ witem' = [witem EXCEPT ![w] = NoRef]
  /\ wpc' = [wpc EXCEPT ![w] = "while"]
  /\ q' = IF Item(w).status = FAILED /\ ~Full THEN Append(q, witem[w]) ELSE q
  /\ UNCHANGED <<ctor, cln, svcVars,
                 obj, items, running, worker_thread, worker_fn, now, nextId,
                 wexc, submitVars, cpc, histVars>>

\* queue.py 147-148: self._current_item = None; self._queue.task_done()
\* (task_done only counts down the queue's unfinished-task counter, which
\* nothing reads), then back to the loop test
WorkerClearCurrent(w) ==
  /\ wpc[w] = "l147"
  /\ current_item' = NoRef
  /\ witem' = [witem EXCEPT ![w] = NoRef]
  /\ wpc' = [wpc EXCEPT ![w] = "while"]
  /\ UNCHANGED <<ctor, cln, svcVars,
                 obj, items, q, running, worker_thread, worker_fn, now, nextId,
                 wexc, submitVars, cpc, histVars>>

(* ----------------------------- start, stop ------------------------------ *)

DeadWorkers == {w \in Workers : wpc[w] = "dead"}
Lowest(S) == CHOOSE x \in S : \A y \in S : x <= y

\* queue.py 76-83 start(): nothing when already running, else set the flag
\* and start a new worker thread
Start ==
  /\ cpc = "idle"
  /\ IF running
       THEN UNCHANGED <<running, worker_thread, wpc>>
       ELSE /\ DeadWorkers # {}
            /\ running' = TRUE
            /\ worker_thread' = Lowest(DeadWorkers)
            /\ wpc' = [wpc EXCEPT ![Lowest(DeadWorkers)] = "while"]
  /\ UNCHANGED <<ctor, cln, svcVars, obj, items, q, current_item, worker_fn,
                 now,
                 nextId,
                 witem, wexc, submitVars, cpc, histVars>>

\* queue.py 87-88 stop(): clear the flag, then join if there is a thread
StopBegin ==
  /\ cpc = "idle"
  /\ running' = FALSE
  /\ cpc' = IF worker_thread # NoRef THEN "join" ELSE "idle"
  /\ UNCHANGED <<ctor, cln, svcVars,
                 obj, items, q, current_item, worker_thread, worker_fn, now,
                 nextId, workerVars, submitVars, histVars>>

\* StopJoin for a join() without a timeout
StopJoinForever ==
  /\ cpc = "join"
  /\ wpc[worker_thread] = "dead"
  /\ cpc' = "idle"
  /\ UNCHANGED <<ctor, cln, svcVars, queueVars, workerVars, submitVars,
                 histVars>>

\* queue.py 89 self._worker_thread.join(timeout=5): returns when the thread
\* has ended, or after 5 seconds, which a thread inside a long callback
\* outlasts (an idle thread wakes from get(timeout=1) within a second)
StopJoin ==
  /\ cpc = "join"
  /\ wpc[worker_thread] \in {"dead", "incall"}
  /\ cpc' = "idle"
  /\ UNCHANGED <<ctor, cln, svcVars, queueVars, workerVars, submitVars,
                 histVars>>

Next ==
  \/ \E t \in Submitters, body \in Bodies : Generate(t, body)
  \/ \E t \in Submitters : SubmitRaise(t)
  \/ \E t \in Submitters : SubmitRegister(t)
  \/ \E t \in Submitters : SubmitPut(t)
  \/ \E t \in Submitters : SubmitReturn(t)
  \/ \E w \in Workers : WorkerGet(w)
  \/ \E w \in Workers : WorkerSetCurrent(w)
  \/ \E w \in Workers : WorkerSetProcessing(w)
  \/ \E w \in Workers : WorkerSetStarted(w)
  \/ \E w \in Workers : WorkerInvoke(w)
  \/ \E w \in Workers : WorkerNoFnError(w)
  \/ \E w \in Workers, step \in 0..StepsMax : CallbackProgress(w, step)
  \/ \E w \in Workers, r \in Results : CallbackReturn(w, r)
  \/ \E w \in Workers : WorkerSetCompleted(w)
  \/ \E w \in Workers, e \in Exceptions : CallbackRaise(w, e)
  \/ \E w \in Workers : WorkerSetError(w)
  \/ \E w \in Workers : WorkerSetCompletedAt(w)
  \/ \E w \in Workers : WorkerClearCurrent(w)
  \/ Start
  \/ StopBegin
  \/ StopJoin

Spec == Init /\ [][Next]_vars

\* the steps of worker thread w
WorkerStep(w) ==
  \/ WorkerGet(w)
  \/ WorkerSetCurrent(w)
  \/ WorkerSetProcessing(w)
  \/ WorkerSetStarted(w)
  \/ WorkerInvoke(w)
  \/ WorkerNoFnError(w)
  \/ \E r \in Results : CallbackReturn(w, r)
  \/ \E step \in 0..StepsMax : CallbackProgress(w, step)
  \/ WorkerSetCompleted(w)
  \/ WorkerSetError(w)
  \/ WorkerSetCompletedAt(w)
  \/ WorkerClearCurrent(w)

\* the queue once started and left running: every operation but stop()
NextRunning ==
  \/ \E t \in Submitters, body \in Bodies : Generate(t, body)
  \/ \E t \in Submitters : SubmitRaise(t)
  \/ \E t \in Submitters : SubmitRegister(t)
  \/ \E t \in Submitters : SubmitPut(t)
  \/ \E t \in Submitters : SubmitReturn(t)
  \/ \E w \in Workers : WorkerGet(w)
  \/ \E w \in Workers : WorkerSetCurrent(w)
  \/ \E w \in Workers : WorkerSetProcessing(w)
  \/ \E w \in Workers : WorkerSetStarted(w)
  \/ \E w \in Workers : WorkerInvoke(w)
  \/ \E w \in Workers : WorkerNoFnError(w)
  \/ \E w \in Workers, step \in 0..StepsMax : CallbackProgress(w, step)
  \/ \E w \in Workers, r \in Results : CallbackReturn(w, r)
  \/ \E w \in Workers : WorkerSetCompleted(w)
  \/ \E w \in Workers, e \in Exceptions : CallbackRaise(w, e)
  \/ \E w \in Workers : WorkerSetError(w)
  \/ \E w \in Workers : WorkerSetCompletedAt(w)
  \/ \E w \in Workers : WorkerClearCurrent(w)
  \/ Start

\* a started thread is scheduled again and again, and a callback that is
\* running returns or raises in the end
RunningSpec ==
  Init /\ [][NextRunning]_vars /\ \A w \in Workers : WF_vars(WorkerStep(w))

\* the steps of worker thread w outside the callback
LoopStep(w) ==
  \/ WorkerGet(w)
  \/ WorkerSetCurrent(w)
  \/ WorkerSetProcessing(w)
  \/ WorkerSetStarted(w)
  \/ WorkerInvoke(w)
  \/ WorkerNoFnError(w)
  \/ WorkerSetCompleted(w)
  \/ WorkerSetError(w)
  \/ WorkerSetCompletedAt(w)
  \/ WorkerClearCurrent(w)

\* the steps of request thread t inside submit
SubmitStep(t) ==
  \/ SubmitRaise(t)
  \/ SubmitRegister(t)
  \/ SubmitPut(t)
  \/ SubmitReturn(t)

\* the queue with one client that submits its requests one after the other
\* and a controller that calls start() and stop()
NextStop ==
  \/ \E body \in Bodies : Generate(1, body)
  \/ SubmitRaise(1)
  \/ SubmitRegister(1)
  \/ SubmitPut(1)
  \/ SubmitReturn(1)
  \/ \E w \in Workers : WorkerGet(w)
  \/ \E w \in Workers : WorkerSetCurrent(w)
  \/ \E w \in Workers : WorkerSetProcessing(w)
  \/ \E w \in Workers : WorkerSetStarted(w)
  \/ \E w \in Workers : WorkerInvoke(w)
  \/ \E w \in Workers : WorkerNoFnError(w)
  \/ \E w \in Workers, step \in 0..StepsMax : CallbackProgress(w, step)
  \/ \E w \in Workers, r \in Results : CallbackReturn(w, r)
  \/ \E w \in Workers : WorkerSetCompleted(w)
  \/ \E w \in Workers, e \in Exceptions : CallbackRaise(w, e)
  \/ \E w \in Workers : WorkerSetError(w)
  \/ \E w \in Workers : WorkerSetCompletedAt(w)
  \/ \E w \in Workers : WorkerClearCurrent(w)
  \/ Start
  \/ StopBegin
  \/ StopJoin

\* threads are scheduled again and again and join(timeout=5) returns; the
\* callback may run forever, and nobody has to call start() or stop()
StopSpec ==
  /\ Init
  /\ [][NextStop]_vars
  /\ \A w \in Workers : WF_vars(LoopStep(w))
  /\ WF_vars(SubmitStep(1))
  /\ WF_vars(StopJoin)

\* the same, with callbacks that return or raise in the end
StopFairSpec ==
  /\ Init
  /\ [][NextStop]_vars
  /\ \A w \in Workers : WF_vars(WorkerStep(w))
  /\ WF_vars(SubmitStep(1))
  /\ WF_vars(StopJoin)

(* ---------------------- InferenceService, the app ---------------------- *)

\* the InferenceQueue object the service holds, as the service lets go of it
QueueObject ==
  [items |-> items, q |-> q, running |-> running,
   current_item |-> current_item, worker_thread |-> worker_thread]

\* app.py 78-80 init_service, the before_request hook: the flag is read
\* clear, so this thread will call service.start().  (Read set, the hook
\* does nothing and the request goes to its handler.)
InitService(t) ==
  /\ spc[t] = "idle"
  /\ \A u \in Submitters : u < t => spc[u] # "idle"
  /\ ~started
  /\ spc' = [spc EXCEPT ![t] = "start"]
  /\ UNCHANGED <<ctor, cln, svcVars, queueVars, workerVars, sitem, sreq, cpc,
                 histVars>>

\* service.py 46-47 start(): self._queue = InferenceQueue(worker_fn=...), a
\* new object with an empty registry and queue that is not running; the
\* object held before stays with the threads that run its loop.  (The
\* environment does not call start() while a stop() is in progress, nor
\* stop() while a start() is; and the object is replaced at a moment when
\* no other request thread is inside its submit.)
ServiceNewQueue(t) ==
  /\ spc[t] = "start"
  /\ cpc = "idle"
  /\ \A u \in Submitters : spc[u] \notin {"create", "raise", "put"}
  /\ replaced' = IF squeue = 0 THEN replaced ELSE Append(replaced, QueueObject)
  /\ squeue' = squeue + 1
  /\ items' = {}
  /\ q' = <<>>
  /\ running' = FALSE
  /\ current_item' = NoRef
  /\ worker_thread' = NoRef
  /\ spc' = [spc EXCEPT ![t] = "qstart"]
  /\ UNCHANGED <<ctor, cln, obj, worker_fn, now, nextId, workerVars, sitem,
                 sreq,
                 cpc,
                 histVars, started, wq, pipe, loading, lpc, ppc>>

\* service.py 48-60 start(): self._queue.start() on the object the service
\* holds now (queue.py 76-83), then the load_task thread is started
\* (load_model is True when init_service calls start())
ServiceQueueStart(t) ==
  /\ spc[t] = "qstart"
  /\ IF running
       THEN UNCHANGED <<running, worker_thread, wpc, wq>>
       ELSE /\ DeadWorkers # {}
            /\ running' = TRUE
            /\ worker_thread' = Lowest(DeadWorkers)
            /\ wpc' = [wpc EXCEPT ![Lowest(DeadWorkers)] = "while"]
            /\ wq' = [wq EXCEPT ![Lowest(DeadWorkers)] = squeue]
  /\ lpc' = [lpc EXCEPT ![t] = "load"]
  /\ spc' = [spc EXCEPT ![t] = "flag"]
  /\ UNCHANGED <<ctor, cln, obj, items, q, current_item, worker_fn, now,
                 nextId,
                 witem,
                 wexc, sitem, sreq, cpc, histVars, started, squeue, replaced,
                 pipe, loading, ppc>>

\* app.py 82: service._started = True; the request goes to its handler
InitServiceSetFlag(t) ==
  /\ spc[t] = "flag"
  /\ started' = TRUE
  /\ spc' = [spc EXCEPT ![t] = "idle"]
  /\ UNCHANGED <<ctor, cln, queueVars, workerVars, sitem, sreq, cpc, histVars,
                 squeue,
                 replaced, wq, pipe, loading, lpc, ppc>>

\* POST /generate behind the hook, which has read the flag set
ServiceGenerate(t, body) == started /\ Generate(t, body)

\* service.py 78 and generate.py 37-39: queue.submit has returned the item
\* and _log_request raises (log_to_file opens and writes a file); submit
\* does not catch it and the route answers 500
LogRequestFails(t) ==
  /\ spc[t] = "ret"
  /\ spc' = [spc EXCEPT ![t] = "r500"]
  /\ UNCHANGED <<ctor, cln, svcVars, queueVars, workerVars, sitem, sreq, cpc,
                 histVars>>

\* generate.py 39: return jsonify({"error": "Internal server error"}), 500
Answer500(t) ==
  /\ spc[t] = "r500"
  /\ spc' = [spc EXCEPT ![t] = "idle"]
  /\ sitem' = [sitem EXCEPT ![t] = NoRef]
  /\ sreq' = [sreq EXCEPT ![t] = NoReq]
  /\ UNCHANGED <<ctor, cln, svcVars, queueVars, workerVars, cpc, histVars>>

(* the backend: SignForgePipeline *)

\* pipeline.py 164-172 load(): nothing when loaded or being loaded, else
\* self._loading = True
LoadBegin == ~pipe /\ ~loading

\* service.py 52-54 load_task: self._pipeline.load() on a thread of its own
LoadTaskBegin(l) ==
  /\ lpc[l] = "load"
  /\ lpc' = [lpc EXCEPT ![l] = IF LoadBegin THEN "loading" ELSE "done"]
  /\ loading' = (loading \/ LoadBegin)
  /\ UNCHANGED <<ctor, cln, queueVars, workerVars, submitVars, cpc, histVars,
                 started,
                 squeue, replaced, wq, pipe, ppc>>

\* pipeline.py 203-233: self._pipe = ...from_pretrained(...), and in the
\* finally clause self._loading = False
LoadTaskFinish(l) ==
  /\ lpc[l] = "loading"
  /\ pipe' = TRUE
  /\ loading' = FALSE
  /\ lpc' = [lpc EXCEPT ![l] = "done"]
  /\ UNCHANGED <<ctor, cln, queueVars, workerVars, submitVars, cpc, histVars,
                 started,
                 squeue, replaced, wq, ppc>>

\* exceptions of the service's callback
LoadingError ==
  [type |-> "InferenceError",
   args |-> <<"Model is still loading... please wait.">>]
GenerationFailed ==
  [type |-> "InferenceError",
   args |-> <<"Generation failed: 'NoneType' object is not callable">>]
LogError == [type |-> "OSError", args |-> <<"metadata.jsonl">>]

\* queue.py 141-143 for the service's callback raising e
ProcessItemRaise(w, e) ==
  /\ wexc' = [wexc EXCEPT ![w] = e]
  /\ obj' = [obj EXCEPT ![witem[w]].status = FAILED]
  /\ wpc' = [wpc EXCEPT ![w] = "l144"]
  /\ ppc' = [ppc EXCEPT ![w] = "none"]

\* service.py 139 and pipeline.py 368-371 generate(): loaded, go on; being
\* loaded, raise InferenceError; neither, call self.load()
GenerateCheck(w) ==
  /\ wpc[w] = "incall"
  /\ ppc[w] = "none"
  /\ IF pipe
       THEN /\ ppc' = [ppc EXCEPT ![w] = "call"]
            /\ UNCHANGED <<obj, wpc, wexc>>
       ELSE IF loading
         THEN ProcessItemRaise(w, LoadingError)
         ELSE /\ ppc' = [ppc EXCEPT ![w] = "load"]
              /\ UNCHANGED <<obj, wpc, wexc>>
  /\ UNCHANGED <<ctor, cln, items, q, running, current_item, worker_thread,
                 worker_fn,
                 now, nextId, witem, submitVars, cpc, histVars, started,
                 squeue, replaced, wq, pipe, loading, lpc>>

\* pipeline.py 371 and 164-172: load() called by generate on the worker
GenerateLoadBegin(w) ==
  /\ wpc[w] = "incall"
  /\ ppc[w] = "load"
  /\ ppc' = [ppc EXCEPT ![w] = IF LoadBegin THEN "loading" ELSE "call"]
  /\ loading' = (loading \/ LoadBegin)
  /\ UNCHANGED <<ctor, cln, queueVars, workerVars, submitVars, cpc, histVars,
                 started,
                 squeue, replaced, wq, pipe, lpc>>

\* pipeline.py 203-233 on the worker
GenerateLoadFinish(w) ==
  /\ wpc[w] = "incall"
  /\ ppc[w] = "loading"
  /\ pipe' = TRUE
  /\ loading' = FALSE
  /\ ppc' = [ppc EXCEPT ![w] = "call"]
  /\ UNCHANGED <<ctor, cln, queueVars, workerVars, submitVars, cpc, histVars,
                 started,
                 squeue, replaced, wq, lpc>>

\* pipeline.py 402 and 441-443: self._pipe(...) is called; when it is None
\* the TypeError is raised again as InferenceError
GenerateCall(w) ==
  /\ wpc[w] = "incall"
  /\ ppc[w] = "call"
  /\ IF pipe
       THEN /\ ppc' = [ppc EXCEPT ![w] = "run"]
            /\ UNCHANGED <<obj, wpc, wexc>>
       ELSE ProcessItemRaise(w, GenerationFailed)
  /\ UNCHANGED <<ctor, cln, items, q, running, current_item, worker_thread,
                 worker_fn,
                 now, nextId, witem, submitVars, cpc, histVars, started,
                 squeue, replaced, wq, pipe, loading, lpc>>

\* service.py 109-111 progress_callback during the generation
ProgressCallback(w, step) == ppc[w] = "run" /\ CallbackProgress(w, step)

\* the steps of the generation have all been reported
Generated(w) ==
  /\ wpc[w] = "incall"
  /\ ppc[w] = "run"
  /\ Item(w).progress = Item(w).total_steps - 1

\* service.py 141-157 and queue.py 135-136: the image is saved, the
\* metadata record appended and the dict returned; item.result = result
ProcessItemReturn(w) ==
  /\ Generated(w)
  /\ obj' = [obj EXCEPT ![witem[w]].result = "image"]
  /\ wpc' = [wpc EXCEPT ![w] = "l137"]
  /\ ppc' = [ppc EXCEPT ![w] = "none"]
  /\ UNCHANGED <<ctor, cln, items, q, running, current_item, worker_thread,
                 worker_fn,
                 now, nextId, witem, wexc, submitVars, cpc, histVars, started,
                 squeue, replaced, wq, pipe, loading, lpc>>

\* service.py 145-151: the image is saved and _log_metadata raises
\* (log_to_file opens and writes a file); _process_item does not catch it
LogMetadataFails(w) ==
  /\ Generated(w)
  /\ ProcessItemRaise(w, LogError)
  /\ UNCHANGED <<ctor, cln, items, q, running, current_item, worker_thread,
                 worker_fn,
                 now, nextId, witem, submitVars, cpc, histVars, started,
                 squeue, replaced, wq, pipe, loading, lpc>>

(* worker threads of the queue the service holds, and of replaced ones *)

Serving(w) == wq[w] = squeue

ServiceWorkerGet(w) == Serving(w) /\ WorkerGet(w)
ServiceWorkerSetCurrent(w) == Serving(w) /\ WorkerSetCurrent(w)
ServiceWorkerClearCurrent(w) == Serving(w) /\ WorkerClearCurrent(w)

\* queue.py 122-126 on a replaced InferenceQueue
ReplacedWorkerGet(w) ==
  /\ ~Serving(w)
  /\ wpc[w] = "while"
  /\ IF ~replaced[wq[w]].running
       THEN /\ wpc' = [wpc EXCEPT ![w] = "dead"]
            /\ UNCHANGED <<witem, replaced>>
       ELSE IF replaced[wq[w]].q # <<>>
         THEN /\ witem' = [witem EXCEPT ![w] = Head(replaced[wq[w]].q)]
              /\ replaced' = [replaced EXCEPT ![wq[w]].q = Tail(@)]
              /\ wpc' = [wpc EXCEPT ![w] = "l128"]
         ELSE UNCHANGED <<wpc, witem, replaced>>
  /\ UNCHANGED <<ctor, cln, queueVars, wexc, submitVars, cpc, histVars,
                 started,
                 squeue,
                 wq, pipe, loading, lpc, ppc>>

\* queue.py 128 on a replaced InferenceQueue
ReplacedWorkerSetCurrent(w) ==
  /\ ~Serving(w)
  /\ wpc[w] = "l128"
  /\ replaced' = [replaced EXCEPT ![wq[w]].current_item = witem[w]]
  /\ wpc' = [wpc EXCEPT ![w] = "l129"]
  /\ UNCHANGED <<ctor, cln, queueVars, witem, wexc, submitVars, cpc, histVars,
                 started,
                 squeue, wq, pipe, loading, lpc, ppc>>

\* queue.py 147-148 on a replaced InferenceQueue
ReplacedWorkerClearCurrent(w) ==
  /\ ~Serving(w)
  /\ wpc[w] = "l147"
  /\ replaced' = [replaced EXCEPT ![wq[w]].current_item = NoRef]
  /\ witem' = [witem EXCEPT ![w] = NoRef]
  /\ wpc' = [wpc EXCEPT ![w] = "while"]
  /\ UNCHANGED <<ctor, cln, queueVars, wexc, submitVars, cpc, histVars,
                 started,
                 squeue,
                 wq, pipe, loading, lpc, ppc>>

(* InferenceService.stop *)

\* service.py 67-68 and queue.py 87-88: self._queue.stop() clears the flag
ServiceStopBegin ==
  /\ cpc = "idle"
  /\ squeue > 0
  /\ \A t \in Submitters : spc[t] \notin {"start", "qstart"}
  /\ running' = FALSE
  /\ cpc' = IF worker_thread # NoRef THEN "sjoin" ELSE "unload"
  /\ UNCHANGED <<ctor, cln, svcVars, obj, items, q, current_item,
                 worker_thread,
                 worker_fn, now, nextId, workerVars, submitVars, histVars>>

\* queue.py 89: join(timeout=5) returns, the thread ended or not
ServiceStopJoin ==
  /\ cpc = "sjoin"
  /\ wpc[worker_thread] \in {"dead", "incall"}
  /\ cpc' = "unload"
  /\ UNCHANGED <<ctor, cln, svcVars, queueVars, workerVars, submitVars,
                 histVars>>

\* service.py 69-70 and pipeline.py 278-285: self._pipeline.unload() on the
\* thread that called stop()
ServiceUnload ==
  /\ cpc = "unload"
  /\ pipe' = FALSE
  /\ cpc' = "idle"
  /\ UNCHANGED <<ctor, cln, queueVars, workerVars, submitVars, histVars,
                 started,
                 squeue,
                 replaced, wq, loading, lpc, ppc>>

ServiceInit == Init /\ worker_fn

\* the app while its first requests race through init_service: request
\* threads, the service's start() and the worker threads, with the callback
\* taken by its outcomes; the load_task threads and stop() are left out
RestartNext ==
  \/ \E t \in Submitters : InitService(t)
  \/ \E t \in Submitters : ServiceNewQueue(t)
  \/ \E t \in Submitters : ServiceQueueStart(t)
  \/ \E t \in Submitters : InitServiceSetFlag(t)
  \/ \E t \in Submitters, body \in Bodies : ServiceGenerate(t, body)
  \/ \E t \in Submitters : SubmitRaise(t)
  \/ \E t \in Submitters : SubmitRegister(t)
  \/ \E t \in Submitters : SubmitPut(t)
  \/ \E t \in Submitters : SubmitReturn(t)
  \/ \E t \in Submitters : LogRequestFails(t)
  \/ \E t \in Submitters : Answer500(t)
  \/ \E w \in Workers : ServiceWorkerGet(w)
  \/ \E w \in Workers : ReplacedWorkerGet(w)
  \/ \E w \in Workers : ServiceWorkerSetCurrent(w)
  \/ \E w \in Workers : ReplacedWorkerSetCurrent(w)
  \/ \E w \in Workers : WorkerSetProcessing(w)
  \/ \E w \in Workers : WorkerSetStarted(w)
  \/ \E w \in Workers : WorkerInvoke(w)
  \/ \E w \in Workers, step \in 0..StepsMax : CallbackProgress(w, step)
  \/ \E w \in Workers, r \in Results : CallbackReturn(w, r)
  \/ \E w \in Workers, e \in Exceptions : CallbackRaise(w, e)
  \/ \E w \in Workers : WorkerSetCompleted(w)
  \/ \E w \in Workers : WorkerSetError(w)
  \/ \E w \in Workers : WorkerSetCompletedAt(w)
  \/ \E w \in Workers : ServiceWorkerClearCurrent(w)
  \/ \E w \in Workers : ReplacedWorkerClearCurrent(w)

RestartSpec == ServiceInit /\ [][RestartNext]_vars

\* the app with one client whose requests come one after the other: the
\* service's start() and stop(), the load_task thread, the worker thread
\* and the steps of _process_item on the backend
BackendNext ==
  \/ InitService(1)
  \/ ServiceNewQueue(1)
  \/ ServiceQueueStart(1)
  \/ InitServiceSetFlag(1)
  \/ \E body \in Bodies : ServiceGenerate(1, body)
  \/ SubmitRaise(1)
  \/ SubmitRegister(1)
  \/ SubmitPut(1)
  \/ SubmitReturn(1)
  \/ \E l \in Loaders : LoadTaskBegin(l)
  \/ \E l \in Loaders : LoadTaskFinish(l)
  \/ \E w \in Workers : ServiceWorkerGet(w)
  \/ \E w \in Workers : ServiceWorkerSetCurrent(w)
  \/ \E w \in Workers : WorkerSetProcessing(w)
  \/ \E w \in Workers : WorkerSetStarted(w)
  \/ \E w \in Workers : WorkerInvoke(w)
  \/ \E w \in Workers : GenerateCheck(w)
  \/ \E w \in Workers : GenerateLoadBegin(w)
  \/ \E w \in Workers : GenerateLoadFinish(w)
  \/ \E w \in Workers : GenerateCall(w)
  \/ \E w \in Workers, step \in 0..StepsMax : ProgressCallback(w, step)
  \/ \E w \in Workers : ProcessItemReturn(w)
  \/ \E w \in Workers : LogMetadataFails(w)
  \/ \E w \in Workers : WorkerSetCompleted(w)
  \/ \E w \in Workers : WorkerSetError(w)
  \/ \E w \in Workers : WorkerSetCompletedAt(w)
  \/ \E w \in Workers : ServiceWorkerClearCurrent(w)
  \/ ServiceStopBegin
  \/ ServiceStopJoin
  \/ ServiceUnload

BackendSpec == ServiceInit /\ [][BackendNext]_vars

(* ------------------- submissions to a stopped queue -------------------- *)

\* the client calls submit only while _running is False
OfflineGenerate(body) == ~running /\ Generate(1, body)

\* one client that submits only to a stopped queue, the worker threads, and
\* start() and stop() called at any time
OfflineNext ==
  \/ \E body \in Bodies : OfflineGenerate(body)
  \/ SubmitRaise(1)
  \/ SubmitRegister(1)
  \/ SubmitPut(1)
  \/ SubmitReturn(1)
  \/ \E w \in Workers : WorkerGet(w)
  \/ \E w \in Workers : WorkerSetCurrent(w)
  \/ \E w \in Workers : WorkerSetProcessing(w)
  \/ \E w \in Workers : WorkerSetStarted(w)
  \/ \E w \in Workers : WorkerInvoke(w)
  \/ \E w \in Workers : WorkerNoFnError(w)
  \/ \E w \in Workers, step \in 0..StepsMax : CallbackProgress(w, step)
  \/ \E w \in Workers, r \in Results : CallbackReturn(w, r)
  \/ \E w \in Workers : WorkerSetCompleted(w)
  \/ \E w \in Workers, e \in Exceptions : CallbackRaise(w, e)
  \/ \E w \in Workers : WorkerSetError(w)
  \/ \E w \in Workers : WorkerSetCompletedAt(w)
  \/ \E w \in Workers : WorkerClearCurrent(w)
  \/ Start
  \/ StopBegin
  \/ StopJoin

OfflineSpec == Init /\ [][OfflineNext]_vars

(* ------------------------------ cleanup_old ----------------------------- *)

\* one second passes
Tick ==
  /\ now < MaxTime
  /\ now' = now + 1
  /\ UNCHANGED <<ctor, cln, svcVars, obj, items, q, running, current_item,
                 worker_thread, worker_fn, nextId, workerVars, submitVars,
                 cpc, histVars>>

\* queue.py 160-161: now = datetime.now(); removed = 0 (before the lock)
CleanupBegin(max_age_seconds) ==
  /\ cln.pc = "idle"
  /\ cln' = [pc |-> "lock", now |-> now,
             max_age_seconds |-> max_age_seconds, removed |-> 0]
  /\ UNCHANGED <<ctor, svcVars, queueVars, workerVars, submitVars, cpc,
                 histVars>>

\* to_remove for a cleanup that forgets the age test
to_removeAnyAge(t, max_age_seconds) ==
  {i \in items : /\ obj[i].status \in {COMPLETED, FAILED}
                 /\ obj[i].completed_at # NoTime}

\* queue.py 163-168: the ids of the finished items older than the threshold.
\* The worker may write an item between the reads of this comprehension; a
\* status read as finished stays finished and completed_at is written once, so
\* reading the fields in one step gives every outcome the code can give.
to_remove(t, max_age_seconds) ==
  {i \in items : /\ obj[i].status \in {COMPLETED, FAILED}
                 /\ obj[i].completed_at # NoTime
                 /\ t - obj[i].completed_at > max_age_seconds}

\* queue.py 162-172: under the lock, delete the selected ids and return
\* their number
CleanupRemove ==
  /\ cln.pc = "lock"
  /\ items' = items \ to_remove(cln.now, cln.max_age_seconds)
  /\ cln' = [NoCleanup EXCEPT
               !.removed = Cardinality(to_remove(cln.now, cln.max_age_seconds))]
  /\ UNCHANGED <<ctor, svcVars, obj, q, running, current_item, worker_thread,
                 worker_fn, now, nextId, workerVars, submitVars, cpc,
                 histVars>>

\* the steps that run inside `with self._lock` (queue.py 97-98, 152-156,
\* 162-171)
LockedStep ==
  \/ \E t \in Submitters : SubmitRegister(t)
  \/ \E w \in Workers, step \in 0..StepsMax : CallbackProgress(w, step)
  \/ CleanupRemove

\* a started queue with one client, its worker, the clock and a thread that
\* calls cleanup_old
CleanupNext ==
  \/ \E body \in Bodies : Generate(1, body)
  \/ SubmitRaise(1)
  \/ SubmitRegister(1)
  \/ SubmitPut(1)
  \/ SubmitReturn(1)
  \/ \E w \in Workers : WorkerGet(w)
  \/ \E w \in Workers : WorkerSetCurrent(w)
  \/ \E w \in Workers : WorkerSetProcessing(w)
  \/ \E w \in Workers : WorkerSetStarted(w)
  \/ \E w \in Workers : WorkerInvoke(w)
  \/ \E w \in Workers : WorkerNoFnError(w)
  \/ \E w \in Workers, step \in 0..StepsMax : CallbackProgress(w, step)
  \/ \E w \in Workers, r \in Results : CallbackReturn(w, r)
  \/ \E w \in Workers : WorkerSetCompleted(w)
  \/ \E w \in Workers, e \in Exceptions : CallbackRaise(w, e)
  \/ \E w \in Workers : WorkerSetError(w)
  \/ \E w \in Workers : WorkerSetCompletedAt(w)
  \/ \E w \in Workers : WorkerClearCurrent(w)
  \/ Start
  \/ Tick
  \/ \E max_age_seconds \in 0..MaxAge : CleanupBegin(max_age_seconds)
  \/ CleanupRemove

CleanupSpec == Init /\ [][CleanupNext]_vars

(* ----------------------- InferenceQueue.__init__ ------------------------ *)

\* Python's `a or b` for an optional integer a: b when a is None or 0
Or(a, b) == IF a = <<>> \/ a = <<0>> THEN b ELSE a[1]

\* the max_size arguments looked at: omitted (<<>>) or an integer (<<n>>)
CtorArgs == {<<>>} \cup {<<n>> : n \in 0..MaxArg}

\* the constructor is about to be called with one of the arguments
ConstructInit ==
  /\ QueueInit
  /\ ctor \in [pc : {"call"}, arg : CtorArgs]
  /\ cln = NoCleanup

\* queue.py 59-74: self.max_size = max_size or config.inference.max_queue_size
\* and self._queue = Queue(maxsize=self.max_size); nothing in it raises
Construct ==
  /\ ctor.pc = "call"
  /\ ctor' = [pc |-> "built", arg |-> ctor.arg,
              max_size |-> Or(ctor.arg, ConfigMaxQueueSize), qsize |-> 0]
  /\ UNCHANGED <<cln, svcVars, queueVars, workerVars, submitVars, histVars,
                 cpc>>

\* the constructed queue takes an item while queue.Queue.full() is false
CtorPut ==
  /\ ctor.pc = "built"
  /\ ~(0 < ctor.max_size /\ ctor.max_size <= ctor.qsize)
  /\ ctor' = [ctor EXCEPT !.qsize = @ + 1]
  /\ UNCHANGED <<cln, svcVars, queueVars, workerVars, submitVars, histVars,
                 cpc>>

\* the constructed queue gives an item back
CtorGet ==
  /\ ctor.pc = "built"
  /\ ctor.qsize > 0
  /\ ctor' = [ctor EXCEPT !.qsize = @ - 1]
  /\ UNCHANGED <<cln, svcVars, queueVars, workerVars, submitVars, histVars,
                 cpc>>

ConstructNext ==
  \/ Construct
  \/ CtorPut
  \/ CtorGet

ConstructSpec == ConstructInit /\ [][ConstructNext]_vars

(* ------------------------------ properties ----------------------------- *)

InQueue(i) == \E k \in 1..Len(q) : q[k] = i

\* jobs whose status is Pending or Processing
Unresolved == {i \in Ids : obj[i].status \in {PENDING, PROCESSING}}

\* request threads waiting in put(), worker threads holding a dequeued item
AtPut == {t \in Submitters : spc[t] = "put"}
Holding == {w \in Workers : witem[w] # NoRef}

\* a step in which request thread t passes the full() test of submit
Tests(t) == spc[t] = "idle" /\ spc'[t] \in {"create", "raise"}

\* C1 as stated: the number of jobs whose status is Pending or Processing
\* never exceeds max_size.
C1_UnresolvedWithinCapacity == Cardinality(Unresolved) <= MaxSize

\* C1 amended: the number of jobs waiting in the queue never exceeds
\* max_size; the Pending and Processing jobs are those plus the jobs workers
\* have dequeued plus the jobs registered by a submit that has not enqueued
\* them yet; and a submit whose full() test runs while max_size jobs wait in
\* the queue fails with QueueFullError.
C1_QueuedWithinCapacity ==
  /\ [](/\ Len(q) <= MaxSize
        /\ Cardinality(Unresolved)
             <= Len(q) + Cardinality(Holding) + Cardinality(AtPut))
  /\ [][\A t \in Submitters :
          (Tests(t) /\ Len(q) = MaxSize) => spc'[t] = "raise"]_vars

\* C1 witness: the queue is full, a submit is being refused, and more than
\* max_size jobs are Pending or Processing.
C1_Witness ==
  /\ Len(q) = MaxSize
  /\ Cardinality(Unresolved) > MaxSize
  /\ \E t \in Submitters : spc[t] = "raise"

\* C2 as stated: the queue never holds more than max_size jobs and the
\* QueueFullError of a refused submit carries queue_size = max_size.
C2_ErrorCarriesMaxSize ==
  /\ Len(q) <= MaxSize
  /\ \A t \in Submitters :
       spc[t] = "raise" => QueueFullError.queue_size = MaxSize

\* C2 amended: the queue never holds more than max_size jobs, dequeued jobs
\* do not count, a submit is refused exactly when max_size jobs wait in the
\* queue at its full() test, and the error carries max_size and the queue
\* size read when the error is built, which is at most max_size.
C2_PendingOnlyCapacity ==
  /\ [](/\ Len(q) <= MaxSize
        /\ \A t \in Submitters :
             spc[t] = "raise" => /\ QueueFullError.queue_size <= MaxSize
                                 /\ QueueFullError.queue_size = Len(q)
                                 /\ QueueFullError.max_size = MaxSize)
  /\ [][\A t \in Submitters :
          Tests(t) => (spc'[t] = "raise" <=> Len(q) = MaxSize)]_vars

\* C2 witness: a refused submit builds its error after a worker has taken a
\* job out of the queue, while another job is Processing.
C2_Witness ==
  /\ \E t \in Submitters : spc[t] = "raise" /\ QueueFullError.queue_size < MaxSize
  /\ \E i \in Ids : obj[i].status = PROCESSING

\* C3 as stated: submit never waits for a queue slot, so no request thread
\* is ever at put() while the queue is full.
C3_SubmitNeverBlocks == \A t \in Submitters : spc[t] = "put" => ~Full

\* C4 as stated: no registered Pending record is outside the queue without
\* having been dequeued by a worker.
C4_NoOrphanedRecord ==
  \A i \in items :
    obj[i].status = PENDING => (InQueue(i) \/ \E w \in Workers : witem[w] = i)

\* a step of request thread t on the path of a submit refused for a full
\* queue, or a request of t refused for its body
RejectedStep(t) ==
  \/ spc[t] = "idle" /\ spc'[t] = "raise"
  \/ spc[t] = "raise" /\ spc'[t] = "idle"
  \/ \E body \in Bodies : Rejects(body) /\ Generate(t, body)

\* C5: a submission refused with QueueFullError (429) or with 400 leaves the
\* registry, the queue and every job record as they were.
C5_RejectedChangesNothing ==
  [][\A t \in Submitters :
       RejectedStep(t) => UNCHANGED <<obj, items, q, current_item, nextId>>]_vars

\* C5 witness: a request is being refused for a full queue while one job
\* waits in the queue and another is Processing.
C5_Witness ==
  /\ \E t \in Submitters : spc[t] = "raise"
  /\ Len(q) = MaxSize
  /\ \E i \in items : obj[i].status = PROCESSING

\* C6 as stated: when a job is marked Processing, every job whose submit had
\* returned before this job's submit was called has been marked Processing
\* before it.
C6_FifoStart ==
  [][\A b \in Ids :
       (obj[b].status = PENDING /\ obj'[b].status = PROCESSING)
         => pred[b] = {}]_vars

\* C7 as stated: at most one job is Processing and at most one invocation
\* of the processing callback is in progress.
C7_AtMostOneProcessing ==
  /\ Cardinality({i \in Ids : obj[i].status = PROCESSING}) <= 1
  /\ Cardinality({w \in Workers : wpc[w] = "incall"}) <= 1

\* jobs a worker thread has dequeued and not let go of yet
Held == {witem[w] : w \in Workers} \ {NoRef}

\* C8: when the callback raises for a job, the job is Failed from then on,
\* its error becomes the string of the exception and stays it once the
\* worker is done with the job, and the worker goes on with its loop; in a
\* queue left running every job accepted after a failed one reaches a
\* terminal status.
C8_FailureIsolation ==
  /\ [][\A w \in Workers :
          (wpc[w] = "l144" /\ wpc'[w] # "l144")
            => /\ obj'[witem[w]].status = FAILED
               /\ obj'[witem[w]].error = Str(wexc[w])
               /\ wpc'[w] = "l146"]_vars
  /\ [][\A i \in Ids : obj[i].status = FAILED => obj'[i].status = FAILED]_vars
  /\ [](\A i \in Ids :
          (worker_fn /\ obj[i].status = FAILED /\ i \notin Held)
            => /\ obj[i].error \in {Str(e) : e \in Exceptions}
               /\ obj[i].completed_at # NoTime)
  /\ \A b \in Ids :
       (running /\ b \in Returned /\ \E a \in Ids : a < b /\ obj[a].status = FAILED)
         ~> (obj[b].status \in Terminal)

\* C8 witness: a job has Failed with the string of its exception, the worker
\* that ran it has gone on, and a job accepted later has been completed.
C8_Witness ==
  /\ running
  /\ \E a, b \in Ids :
       /\ a < b
       /\ obj[a].status = FAILED /\ obj[a].error = "boom"
       /\ obj[b].status = COMPLETED /\ obj[b].completed_at # NoTime
       /\ Held = {}

\* C9: the callback is invoked at most once per job, and a job that has been
\* passed to it, or has Failed, is never in the queue again.
C9_NoRetry ==
  \A i \in Ids :
    /\ calls[i] <= 1
    /\ (calls[i] >= 1 \/ obj[i].status = FAILED) => ~InQueue(i)

\* C9 witness: a job has Failed after its one invocation, and the running
\* worker has since taken up the next job.
C9_Witness ==
  /\ running
  /\ \E a, b \in Ids :
       /\ obj[a].status = FAILED /\ calls[a] = 1
       /\ \A w \in Workers : witem[w] # a
       /\ calls[b] = 1 /\ obj[b].status = PROCESSING

\* C10 as stated: once a job's status is Completed, Failed or Cancelled,
\* neither its status nor any other of its fields is written again.
C10_TerminalImmutable ==
  [][\A i \in Ids : obj[i].status \in Terminal => obj'[i] = obj[i]]_vars

\* the answers a status reader can be given for the registered jobs
Observed == {to_dict(get_item(i)) : i \in items}

\* C19 as stated: in every dict a status reader is given, started_at is set
\* exactly when the status is Processing, Completed or Failed.
C19_StartedAtIffStarted ==
  \A d \in Observed :
    d.started_at # None <=> d.status \in {PROCESSING, COMPLETED, FAILED}

\* C20 as stated: in every dict a status reader is given, completed_at is
\* set exactly when the status is Completed or Failed.
C20_CompletedAtIffTerminal ==
  \A d \in Observed :
    d.completed_at # None <=> d.status \in {COMPLETED, FAILED}

\* C11 as stated: every job whose submit has returned reaches Completed or
\* Failed, whatever start() and stop() calls are interleaved, and stays in
\* the registry until then.
C11_AcceptedTerminates ==
  /\ [](\A i \in Returned : obj[i].status \notin Terminal => i \in items)
  /\ \A i \in Ids :
       (i \in Returned) ~> (obj[i].status \in {COMPLETED, FAILED})

Alive == {w \in Workers : wpc[w] # "dead"}

\* C12 as stated: for every Completed job get_result returns the value the
\* callback returned, which is the job's result, on every call.
C12_ResultRoundTrip ==
  \A i \in Ids : obj[i].status = COMPLETED => get_result(i) = obj[i].result

\* C13 as stated: however often InferenceService.start() is called, one
\* queue and one worker loop exist, and every job whose submit has returned
\* is still answered by get_status.
C13_StartIdempotent ==
  /\ squeue <= 1
  /\ Cardinality(Alive) <= 1
  /\ \A i \in Returned : get_status(i) # NoDict

\* C14 as stated: no thread but the worker executes a backend operation:
\* no load_task thread is inside load(), and stop() does not get to unload()
\* while a callback is running.
C14_BackendWorkerOnly ==
  /\ \A l \in Loaders : lpc[l] # "loading"
  /\ cpc = "unload" => \A w \in Workers : wpc[w] # "incall"

\* C15 as stated: no job is failed because the backend is still being
\* loaded: the worker never catches the still-loading error and no job
\* carries it.
C15_NotFailedByLoad ==
  /\ \A w \in Workers : wexc[w] # LoadingError
  /\ \A i \in Ids : obj[i] # NoItem => obj[i].error # Str(LoadingError)

\* C16 as stated: a submit whose job has been registered and enqueued is
\* never answered as a failed submission.
C16_LogRequestBestEffort ==
  \A t \in Submitters : spc[t] = "r500" => sitem[t] \notin items

\* C17 as stated: a failure to append the metadata record never makes the
\* job Failed.
C17_LogMetadataBestEffort ==
  \A w \in Workers : wexc[w] = LogError => Item(w).status # FAILED

\* C21 as stated: a job's result is set only if its status is Completed,
\* its error is set only if its status is Failed, and a Failed job carries
\* an error.
C21_ResultErrorMatchStatus ==
  \A i \in Ids :
    obj[i] # NoItem =>
      /\ obj[i].result # None => obj[i].status = COMPLETED
      /\ obj[i].error # None => obj[i].status = FAILED
      /\ obj[i].status = FAILED => obj[i].error # None

\* C25 as stated: the status in the answer of a successful submit is
\* pending or processing.
C25_SubmitStatusNotTerminal ==
  \A t \in Submitters :
    spc[t] = "ret" => SubmitResponse(t).status \in {PENDING, PROCESSING}

\* C30 as stated: the current_item of the queue status is set exactly when
\* some job is Processing, and then it names a Processing job.
C30_CurrentItemIsProcessing ==
  /\ get_queue_status.current_item # NoRef
       <=> \E i \in Ids : obj[i].status = PROCESSING
  /\ get_queue_status.current_item # NoRef
       => obj[get_queue_status.current_item].status = PROCESSING

\* C22 as stated: the result endpoint answers 404 exactly for an id that is
\* not in the registry, 200 with the result for a Completed job, and 202
\* for a registered job that is not Completed.
C22_ResultEndpoint ==
  \A i \in Ids :
    /\ GetResultRoute(i).code = 404 <=> i \notin items
    /\ (i \in items /\ obj[i].status = COMPLETED)
         => /\ GetResultRoute(i).code = 200
            /\ GetResultRoute(i).body = obj[i].result
    /\ (i \in items /\ obj[i].status # COMPLETED)
         => GetResultRoute(i).code = 202

\* C23 as stated: InferenceQueue(max_size=0) fails at construction, so no
\* queue object ever comes out of that call.
C23_ZeroCapacityRejected == ctor.arg = <<0>> => ctor.pc # "built"

\* a step that takes job i to Completed or Failed
Finishes(i) ==
  /\ obj[i].status \notin {COMPLETED, FAILED}
  /\ obj'[i].status \in {COMPLETED, FAILED}

\* C24 as stated: in a step that is not a submission the queue_size of
\* get_queue_status does not grow, total_processed grows by exactly one in a
\* step that takes a job to Completed or Failed, and total_processed never
\* shrinks, whatever cleanup_old does in between.
C24_StatusCountersMonotone ==
  [][/\ (~ \E t \in Submitters : SubmitPut(t))
          => get_queue_status'.queue_size <= get_queue_status.queue_size
     /\ (\E i \in Ids : Finishes(i))
          => get_queue_status'.total_processed
               = get_queue_status.total_processed + 1
     /\ get_queue_status'.total_processed
          >= get_queue_status.total_processed]_vars

\* C29: a call of cleanup_old deletes only records that are Completed or
\* Failed with a completed_at more than max_age_seconds before the time the
\* call read, so never a Pending or Processing one, and it leaves the
\* queue, the current-job pointer and every record as they were.
C29_CleanupFrame ==
  [][(cln.pc = "lock" /\ cln'.pc = "idle") =>
       /\ items' \subseteq items
       /\ \A i \in items \ items' :
            /\ obj[i].status \in {COMPLETED, FAILED}
            /\ obj[i].completed_at # NoTime
            /\ cln.now - obj[i].completed_at > cln.max_age_seconds
       /\ q' = q
       /\ current_item' = current_item
       /\ obj' = obj]_vars

\* a call of cleanup_old has deleted a finished record, kept a finished one
\* that was not old enough, and a job is still Pending or Processing
C29_Witness ==
  /\ cln.pc = "idle"
  /\ cln.removed > 0
  /\ \E j \in 1..(nextId - 1) : j \notin items
  /\ \E i \in items : obj[i].status \in {COMPLETED, FAILED}
  /\ \E i \in items : obj[i].status \in {PENDING, PROCESSING}

\* C26 as stated: every step that inserts into or deletes from the registry,
\* or writes a field of a registered record, runs inside the registry lock.
C26_LockDiscipline ==
  [][(items' # items \/ \E i \in items : obj'[i] # obj[i])
       => LockedStep]_vars

\* C27: every job waiting in the queue is Pending; a status changes only
\* from Pending to Processing, by the worker that dequeued the job, and from
\* Processing to Completed or Failed.
C27_StatusPath ==
  /\ [](\A k \in 1..Len(q) : obj[q[k]].status = PENDING)
  /\ [][\A i \in Ids :
          /\ obj'[i].status # obj[i].status =>
               \/ obj[i] = NoItem /\ obj'[i].status = PENDING
               \/ obj[i].status = PENDING /\ obj'[i].status = PROCESSING
               \/ /\ obj[i].status = PROCESSING
                  /\ obj'[i].status \in {COMPLETED, FAILED}
          /\ (obj[i].status = PENDING /\ obj'[i].status = PROCESSING) =>
               /\ ~InQueue(i)
               /\ \E w \in Workers : witem[w] = i]_vars

\* one job is Completed, another is Failed and a third waits in the queue
C27_Witness ==
  /\ \E a, b \in items : obj[a].status = COMPLETED /\ obj[b].status = FAILED
  /\ Len(q) > 0

\* C28 as stated: a submit called while the queue is stopped and has room
\* is accepted, no job leaves Pending while no worker thread exists, and
\* the jobs are marked Processing in the order they were submitted.
C28_OfflineSubmit ==
  /\ [][\A t \in Submitters :
          (Tests(t) /\ ~running /\ ~Full) => spc'[t] = "create"]_vars
  /\ [][(\A w \in Workers : wpc[w] = "dead" /\ wpc'[w] = "dead") =>
          \A i \in Ids :
            obj[i].status = PENDING => obj'[i].status = PENDING]_vars
  /\ [][\A b \in Ids :
          (obj[b].status = PENDING /\ obj'[b].status = PROCESSING) =>
            \A a \in Ids : a < b => obj[a].status # PENDING]_vars

====
